---- MODULE Spec2Model ----
(***************************************************************************)
(* A model of simple_database/main.py: the file-backed record store made   *)
(* of DataBase (one directory per database) and Table (one JSON file per   *)
(* table, holding {'columns': ..., 'rows': [...]}).                        *)
(*                                                                         *)
(* The file system is modelled by `dirs` (the database directories under   *)
(* BASE_DB_FILE_PATH) and `files` (the JSON documents, by path).  Python   *)
(* objects held by the caller are modelled by `conns`: each slot holds     *)
(* nothing or a DataBase object with its `tables` list and the Table       *)
(* objects that setattr attached to it.  `last` records the last call and  *)
(* what it returned or raised.  `okInserts` and `created` are history      *)
(* variables: the number of inserts that returned normally, per table      *)
(* file, and the schema of the first create_table call that returned       *)
(* normally, per database name and table name.                             *)
(*                                                                         *)
(* _write_row is also modelled in two steps, for writers that run side by  *)
(* side: `pending` holds, for each writer, the document it has loaded and  *)
(* the row it is about to write back.  _write_row writes from offset 0     *)
(* without truncating, so `extra` holds, for each file, the number of      *)
(* characters of an older and longer text left after the document.         *)
(*                                                                         *)
(* query and all are generator functions: the call runs no line of the     *)
(* body, the first next() opens and loads the file, and the caller gets    *)
(* control back at every yield.  `gen` holds, for each caller variable,    *)
(* the generator it keeps: the rows it loaded, what it has yielded and     *)
(* what it has yet to yield.                                               *)
(***************************************************************************)
EXTENDS Integers, Sequences, FiniteSets, TLC

VARIABLES dirs, files, conns, last, okInserts, created, pending, extra, gen

vars == <<dirs, files, conns, last, okInserts, created, pending, extra, gen>>

-----------------------------------------------------------------------------
(* Bounds of the model.                                                    *)

\* Rows the table files may hold, all together, before the model stops
\* inserting.
MaxRows == 2
\* Table files the directories may hold, all together, before the model stops
\* creating tables.
MaxFiles == 2
\* The caller's variables that may hold a DataBase object.
Conns == {"a", "b"}

-----------------------------------------------------------------------------
(* Python values.  A value is [t |-> type(x).__name__, v |-> payload].     *)
(* A float's payload is the number of halves (2.5 is 5), so that floats    *)
(* and integers can be compared; a date's payload is its isoformat().      *)

PyStr(s) == [t |-> "str", v |-> s]
PyInt(i) == [t |-> "int", v |-> i]
PyFloat(h) == [t |-> "float", v |-> h]
PyBool(b) == [t |-> "bool", v |-> b]
PyDate(iso) == [t |-> "date", v |-> iso]

\* type(args[i]).__name__
TypeName(x) == x.t

IsNumber(x) == x.t \in {"int", "float", "bool"}

\* The numeric value of an int, a float or a bool, in halves.
Halves(x) ==
    IF x.t = "int" THEN 2 * x.v
    ELSE IF x.t = "float" THEN x.v
    ELSE IF x.v THEN 2 ELSE 0

\* Python's ==: numbers compare by value across int, float and bool
\* (1 == True == 1.0); values of unrelated types are unequal.
PyEq(a, b) ==
    IF IsNumber(a) /\ IsNumber(b) THEN Halves(a) = Halves(b)
    ELSE IF a.t = b.t THEN a.v = b.v
    ELSE FALSE

\* json.dumps(..., cls=DateTimeEncoder) followed by json.load: a date is
\* written as its isoformat() string and is read back as that string; str,
\* int, float and bool are read back as they were written.
JsonValue(x) == IF x.t = "date" THEN PyStr(x.v) ELSE x

-----------------------------------------------------------------------------
(* Names.  A name is a sequence of pieces, so that '.json' in f and         *)
(* f.replace('.json', '') can be computed: "t.json" is <<"t", ".json">>.    *)

Ext == ".json"

\* '{}.json'.format(self.name)
FileName(name) == name \o <<Ext>>

\* '.json' in f
HasExt(f) == \E i \in 1..Len(f) : f[i] = Ext

NotExt(piece) == piece # Ext

\* f.replace('.json', '')
StripExt(f) == SelectSeq(f, NotExt)

\* os.path.join(BASE_DB_FILE_PATH, self.db.name, '{}.json'.format(self.name))
TablePath(dbname, name) == <<dbname, FileName(name)>>

-----------------------------------------------------------------------------
(* Schemas.  self.columns is None or a list of {'name': ..., 'type': ...}. *)

Column(n, ty) == [name |-> n, type |-> ty]

None == [none |-> TRUE, cols |-> <<>>]
Cols(s) == [none |-> FALSE, cols |-> s]

\* Python truthiness of a columns value: None and [] are falsy.
Truthy(c) == ~c.none /\ Len(c.cols) > 0

ColumnNames(c) == {c.cols[i].name : i \in 1..Len(c.cols)}

-----------------------------------------------------------------------------
(* The file system and the JSON documents in it.                           *)

\* The document json.dumps writes: {'columns': ..., 'rows': [...]}.
Document(columns, rows) == [columns |-> columns, rows |-> rows]

\* os.path.exists(self.table_filepath)
FileExists(fs, path) == path \in DOMAIN fs

\* The check of DataBase.create made on a path no directory is ever at.
DirExistsElsewhere(name) == FALSE

\* os.path.exists(db_filepath)
DirExists(name) == name \in dirs

\* The file names os.listdir(self.db_filepath) returns.
DirEntries(fs, dbname) == {p[2] : p \in {q \in DOMAIN fs : q[1] = dbname}}

\* os.listdir returns the entries in arbitrary order: every ordering of them.
Listings(S) ==
    {s \in [1..Cardinality(S) -> S] : \A i, j \in 1..Cardinality(S) : s[i] = s[j] => i = j}

\* open(path, mode='w') and write: the file at path now holds doc.
WriteFile(fs, path, doc) ==
    [p \in DOMAIN fs \cup {path} |-> IF p = path THEN doc ELSE fs[p]]

-----------------------------------------------------------------------------
(* The length of the text json.dumps produces, in characters.  _write_row  *)
(* seeks to offset 0 and writes without truncating: when the new text is   *)
(* shorter than the text in the file, the tail of the old text stays after *)
(* the new document and json.load raises JSONDecodeError from then on.     *)

\* The number of decimal digits of a natural number.
RECURSIVE Digits(_)
Digits(n) == IF n < 10 THEN 1 ELSE 1 + Digits(n \div 10)

\* len(json.dumps(x)) for a value: a str in quotes, an int in digits, a
\* float as digits, point and one digit, a bool as true or false, a date as
\* its isoformat() in quotes.
ValueSize(x) ==
    IF x.t \in {"str", "date"} THEN Len(x.v) + 2
    ELSE IF x.t = "int" THEN Digits(x.v)
    ELSE IF x.t = "float" THEN Digits(x.v \div 2) + 2
    ELSE IF x.v THEN 4 ELSE 5

\* The sum of size[k] over the keys k.
RECURSIVE SumOver(_, _)
SumOver(size, keys) ==
    IF keys = {} THEN 0
    ELSE LET k == CHOOSE q \in keys : TRUE
         IN size[k] + SumOver(size, keys \ {k})

\* The separators ', ' between n items.
Separators(n) == IF n = 0 THEN 0 ELSE 2 * (n - 1)

\* len(json.dumps(row)): {"key": value, ...}
RowSize(row) ==
    2 + SumOver([k \in DOMAIN row |-> Len(k) + 4 + ValueSize(row[k])], DOMAIN row)
      + Separators(Cardinality(DOMAIN row))

\* len(json.dumps(rows)): [row, ...]
RowsSize(rows) ==
    2 + SumOver([j \in DOMAIN rows |-> RowSize(rows[j])], DOMAIN rows)
      + Separators(Len(rows))

\* len(json.dumps(columns)): null, or [{"name": "...", "type": "..."}, ...]
ColumnsSize(columns) ==
    IF columns.none THEN 4
    ELSE 2 + SumOver([i \in DOMAIN columns.cols |->
                         24 + Len(columns.cols[i].name) + Len(columns.cols[i].type)],
                     DOMAIN columns.cols)
           + Separators(Len(columns.cols))

\* len(json.dumps(doc)): {"columns": ..., "rows": ...}
TextSize(doc) == 23 + ColumnsSize(doc.columns) + RowsSize(doc.rows)

\* The characters left in the file at path after its document.
ExtraOf(ex, path) == IF path \in DOMAIN ex THEN ex[path] ELSE 0

\* json.load(f) on the file at path: "ok", or the exception it raises.
LoadErr(ex, path) == IF ExtraOf(ex, path) > 0 THEN "JSONDecodeError" ELSE "ok"

\* f.seek(0); f.write(text) on the file at path, which holds doc and whatever
\* is left after it: the characters left after the new document.
Leftover(fs, ex, path, doc) ==
    LET old == TextSize(fs[path]) + ExtraOf(ex, path)
        rest == IF old > TextSize(doc) THEN old - TextSize(doc) ELSE 0
    IN [p \in (DOMAIN ex \ {path}) \cup (IF rest > 0 THEN {path} ELSE {}) |->
           IF p = path THEN rest ELSE ex[p]]

-----------------------------------------------------------------------------
(* class Table                                                             *)

\* Table._read_columns: json.load(table_file)['columns']
ReadColumns(fs, path) == fs[path].columns

\* Table.__init__ initialising a missing table file without the schema.
TableInitFilesNoSchema(fs, dbname, name, columns) ==
    LET path == TablePath(dbname, name)
    IN IF ~FileExists(fs, path)
       THEN WriteFile(fs, path, Document(None, <<>>))
       ELSE fs

\* Table.__init__ initialising the table file whether it exists or not.
TableInitFilesAlways(fs, dbname, name, columns) ==
    WriteFile(fs, TablePath(dbname, name), Document(columns, <<>>))

\* Table.__init__, the file system after it: a missing table file is
\* initialised as {'columns': columns, 'rows': []}, an existing one is kept.
TableInitFiles(fs, dbname, name, columns) ==
    LET path == TablePath(dbname, name)
    IN IF ~FileExists(fs, path)
       THEN WriteFile(fs, path, Document(columns, <<>>))
       ELSE fs

\* Table.__init__, the object it builds:
\* self.columns = columns or self._read_columns()
TableInit(fs, dbname, name, columns) ==
    LET path == TablePath(dbname, name)
        after == TableInitFiles(fs, dbname, name, columns)
    IN [name |-> name,
        path |-> path,
        columns |-> IF Truthy(columns) THEN columns ELSE ReadColumns(after, path)]

\* The check of line 54 written as len(args) < len(self.columns).
ArityTooFew(args, columns) == Len(args) < Len(columns.cols)

\* Table.insert, line 54: len(args) != len(self.columns)
ArityMismatch(args, columns) == Len(args) # Len(columns.cols)

\* The check of line 62 written with isinstance, under which a bool is an int.
TypeMatchesInstance(f_type, arg) ==
    f_type = TypeName(arg) \/ (f_type = "int" /\ TypeName(arg) = "bool")

\* Table.insert, line 62: f_type == arg_type
TypeMatches(f_type, arg) == f_type = TypeName(arg)

\* Table.insert, the loop: the first position whose value has the wrong
\* type, 0 when every value has its column's type.
FirstMismatch(args, columns) ==
    LET bad == {i \in 1..Len(columns.cols) : ~TypeMatches(columns.cols[i].type, args[i])}
    IN IF bad = {} THEN 0 ELSE CHOOSE i \in bad : \A j \in bad : i <= j

\* Table.insert, the dict `data` built by the loop: data[f_name] = args[i]
\* (a later column of the same name overwrites an earlier one).
RowData(args, columns) ==
    [n \in ColumnNames(columns) |->
        LET at == {i \in 1..Len(columns.cols) : columns.cols[i].name = n}
        IN args[CHOOSE i \in at : \A j \in at : j <= i]]

\* The row as json.dumps(data, cls=DateTimeEncoder) writes it and json.load
\* reads it back.
JsonRow(row) == [n \in DOMAIN row |-> JsonValue(row[n])]

\* _write_row writing the new row alone, the rows read from the file dropped.
WriteRowAlone(fs, path, row) ==
    WriteFile(fs, path, Document(fs[path].columns, <<JsonRow(row)>>))

\* _write_row writing the row to every table file of the directory.
WriteRowEverywhere(fs, path, row) ==
    [p \in DOMAIN fs |->
        IF p[1] = path[1]
        THEN Document(fs[p].columns, Append(fs[p].rows, JsonRow(row)))
        ELSE fs[p]]

\* Table._write_row: load the document, append the row, write it all back.
WriteRow(fs, path, row) ==
    LET data == fs[path]
    IN WriteFile(fs, path, Document(data.columns, Append(data.rows, JsonRow(row))))

\* _write_row writing back the document that is in the file when it writes,
\* with the row appended, instead of the document it loaded.
WriteBackCurrent(fs, path, data, row) ==
    WriteFile(fs, path, Document(fs[path].columns, Append(fs[path].rows, JsonRow(row))))

\* Table._write_row, lines 71 to 73: the row is appended to the document
\* `data` that line 70 loaded, and that document is written over the file.
WriteBack(fs, path, data, row) ==
    WriteFile(fs, path, Document(data.columns, Append(data.rows, JsonRow(row))))

\* Table.query, the inner loop over kwargs.items() for one row, from the
\* i-th item on: the row is yielded once for every item it matches, and
\* row[key] raises KeyError when the row has no such key.
RECURSIVE ScanItems(_, _, _)
ScanItems(row, kwargs, i) ==
    IF i > Len(kwargs) THEN [rows |-> <<>>, err |-> "ok"]
    ELSE IF kwargs[i].key \notin DOMAIN row THEN [rows |-> <<>>, err |-> "KeyError"]
    ELSE LET rest == ScanItems(row, kwargs, i + 1)
         IN IF PyEq(row[kwargs[i].key], kwargs[i].value)
            THEN [rows |-> <<row>> \o rest.rows, err |-> rest.err]
            ELSE rest

\* Table.query, the outer loop over data['rows'] from the j-th row on, the
\* generator being consumed to its end or to the exception it raises.
RECURSIVE ScanRows(_, _, _)
ScanRows(rows, kwargs, j) ==
    IF j > Len(rows) THEN [rows |-> <<>>, err |-> "ok"]
    ELSE LET here == ScanItems(rows[j], kwargs, 1)
         IN IF here.err # "ok" THEN here
            ELSE LET rest == ScanRows(rows, kwargs, j + 1)
                 IN [rows |-> here.rows \o rest.rows, err |-> rest.err]

\* Table.query
TableQuery(fs, table, kwargs) == ScanRows(fs[table.path].rows, kwargs, 1)

\* all() answering from the rows as they were before the last row was
\* written.
TableAllButLast(fs, table) ==
    LET rows == fs[table.path].rows
    IN IF rows = <<>> THEN rows ELSE SubSeq(rows, 1, Len(rows) - 1)

\* Table.all: every row of the file, in file order.
TableAll(fs, table) == fs[table.path].rows

\* Table.count: len(data['rows'])
TableCount(fs, table) == Len(fs[table.path].rows)

\* Table.describe
TableDescribe(table) == table.columns

-----------------------------------------------------------------------------
(* class DataBase                                                          *)

\* A caller variable that holds no DataBase object.
NoDataBase == [open |-> FALSE, name |-> "", tables |-> <<>>, attrs |-> <<>>]

\* setattr left out: no Table object becomes reachable.
SetAttrNone(attrs, name, table) == attrs

\* setattr(self, name, table): the Table objects reachable as attributes.
SetAttr(attrs, name, table) ==
    [n \in DOMAIN attrs \cup {name} |-> IF n = name THEN table ELSE attrs[n]]

\* DataBase._read_tables, the first loop: the names of the directory
\* entries that contain '.json', each with every '.json' removed.
RECURSIVE TableNamesOf(_)
TableNamesOf(listing) ==
    IF listing = <<>> THEN <<>>
    ELSE IF HasExt(Head(listing))
         THEN <<StripExt(Head(listing))>> \o TableNamesOf(Tail(listing))
         ELSE TableNamesOf(Tail(listing))

\* DataBase._read_tables, the second loop up to and including tables[i]:
\* setattr(self, table, Table(self, table)), with the file system each
\* Table.__init__ leaves behind.  The schema passed is None, so each
\* Table.__init__ calls _read_columns, whose json.load raises on a file
\* with characters left after its document: the loop ends there.
RECURSIVE OpenTables(_, _, _, _, _)
OpenTables(fs, ex, dbname, tables, i) ==
    IF i = 0 THEN [fs |-> fs, attrs |-> <<>>, err |-> "ok"]
    ELSE LET before == OpenTables(fs, ex, dbname, tables, i - 1)
             load == LoadErr(ex, TablePath(dbname, tables[i]))
         IN IF before.err # "ok" THEN before
            ELSE IF load # "ok"
            THEN [fs |-> before.fs, attrs |-> before.attrs, err |-> load]
            ELSE [fs |-> TableInitFiles(before.fs, dbname, tables[i], None),
                  attrs |-> SetAttr(before.attrs, tables[i],
                                    TableInit(before.fs, dbname, tables[i], None)),
                  err |-> "ok"]

\* DataBase.__init__ for one listing of the directory: the object built,
\* the file system left behind, and the exception raised, if any (no object
\* is built then).
DataBaseInit(fs, ex, dbname, listing) ==
    LET tables == TableNamesOf(listing)
        opened == OpenTables(fs, ex, dbname, tables, Len(tables))
    IN [fs |-> opened.fs,
        err |-> opened.err,
        db |-> [open |-> TRUE, name |-> dbname, tables |-> tables,
                attrs |-> opened.attrs]]

\* The check of line 155 made on the file name of the table.
InCatalogByFileName(db, table_name) ==
    \E i \in 1..Len(db.tables) : db.tables[i] = FileName(table_name)

\* DataBase.create_table, line 155: table_name in self.tables
InCatalog(db, table_name) == \E i \in 1..Len(db.tables) : db.tables[i] = table_name

\* DataBase.show_tables
ShowTablesOf(db) == db.tables

-----------------------------------------------------------------------------
(* The calls the model makes and the arguments it draws them from.         *)

DbNames == {"shop", "lab"}

TableNames == {<<"t">>, <<"u">>, <<"t", Ext>>}

Users == Cols(<<Column("name", "str"), Column("age", "int")>>)
Events == Cols(<<Column("born", "date"), Column("score", "float")>>)

Schemas == {Users, Events}

Ana == PyStr("Ana")
Bo == PyStr("Bo")
One == PyInt(1)
TwoAndAHalf == PyFloat(5)
True == PyBool(TRUE)
Borges == PyDate("1899-08-24")

\* The tuples insert is called with: rows of each schema, and tuples with too
\* few values (none included), too many, and a wrong type in the first
\* position, in the second and in both (each of the rows of one schema has
\* two wrong types for the other).
ArgTuples ==
    {<<Ana, One>>, <<Bo, One>>, <<Borges, TwoAndAHalf>>,
     <<>>, <<Ana>>, <<Ana, One, One>>,
     <<Bo, TwoAndAHalf>>, <<Ana, True>>, <<One, One>>}

Item(k, v) == [key |-> k, value |-> v]

\* The keyword arguments query is called with, in call order: none, one
\* and two.
Kwargs ==
    {<<>>,
     <<Item("name", Ana)>>, <<Item("age", One)>>, <<Item("age", True)>>,
     <<Item("name", Ana), Item("age", One)>>,
     <<Item("age", One), Item("name", Bo)>>}

\* The record of a call: what was called with what, and how it ended.
NoCall ==
    [op |-> "none", conn |-> "", db |-> "", table |-> <<>>, columns |-> None,
     args |-> <<>>, kwargs |-> <<>>, err |-> "ok", msg |-> "", field |-> "",
     result |-> <<>>]

\* okInserts over the files of fs: files that are new start at 0.
Counted(fs, n) == [p \in DOMAIN fs |-> IF p \in DOMAIN n THEN n[p] ELSE 0]

\* The number of rows in all the files of fs.
RECURSIVE RowsIn(_, _)
RowsIn(fs, paths) ==
    IF paths = {} THEN 0
    ELSE LET p == CHOOSE q \in paths : TRUE
         IN Len(fs[p].rows) + RowsIn(fs, paths \ {p})

StoredRows(fs) == RowsIn(fs, DOMAIN fs)

\* created with one more create_table call that returned: the first call
\* for a table <<database name, table name>> is the one remembered.
Recorded(cr, tbl, columns) ==
    [p \in DOMAIN cr \cup {tbl} |-> IF p \in DOMAIN cr THEN cr[p] ELSE columns]

\* A writer that is not inside _write_row.
Idle == [pc |-> "idle", path |-> <<>>, data |-> Document(None, <<>>), row |-> <<>>]

\* A caller variable that holds no generator.
NoGen ==
    [pc |-> "none", op |-> "none", table |-> [name |-> <<>>, path |-> <<>>, columns |-> None],
     kwargs |-> <<>>, data |-> <<>>, todo |-> <<>>, err |-> "ok", out |-> <<>>]

Init ==
    /\ dirs = {}
    /\ files = <<>>
    /\ conns = [c \in Conns |-> NoDataBase]
    /\ last = NoCall
    /\ okInserts = <<>>
    /\ created = <<>>
    /\ pending = [w \in Conns |-> Idle]
    /\ extra = <<>>
    /\ gen = [c \in Conns |-> NoGen]

\* DataBase(name=db_name), its result assigned to the caller's variable c;
\* when it raises, the variable keeps what it held.
Open(c, name, op) ==
    \E listing \in Listings(DirEntries(files, name)) :
        LET init == DataBaseInit(files, extra, name, listing)
        IN /\ files' = init.fs
           /\ conns' = IF init.err = "ok" THEN [conns EXCEPT ![c] = init.db] ELSE conns
           /\ okInserts' = Counted(init.fs, okInserts)
           /\ last' = [NoCall EXCEPT !.op = op, !.conn = c, !.db = name,
                                     !.err = init.err]

\* create_database(db_name): DataBase.create, then connect_database.
CreateDatabase(c, name) ==
    IF DirExists(name)
    THEN /\ last' = [NoCall EXCEPT !.op = "create_database", !.conn = c, !.db = name,
                                   !.err = "ValidationError", !.msg = "exists"]
         /\ UNCHANGED <<dirs, files, conns, okInserts, created, pending, extra, gen>>
    ELSE /\ dirs' = dirs \cup {name}
         /\ Open(c, name, "create_database")
         /\ UNCHANGED <<created, pending, extra, gen>>

\* connect_database(db_name): os.listdir raises when the directory is absent.
ConnectDatabase(c, name) ==
    IF name \notin dirs
    THEN /\ last' = [NoCall EXCEPT !.op = "connect_database", !.conn = c, !.db = name,
                                   !.err = "FileNotFoundError"]
         /\ UNCHANGED <<dirs, files, conns, okInserts, created, pending, extra, gen>>
    ELSE /\ Open(c, name, "connect_database")
         /\ UNCHANGED <<dirs, created, pending, extra, gen>>

\* db.create_table(table_name, columns)
CreateTable(c, name, columns) ==
    LET db == conns[c]
        call == [NoCall EXCEPT !.op = "create_table", !.conn = c, !.db = db.name,
                               !.table = name, !.columns = columns]
    IN /\ db.open
       /\ IF InCatalog(db, name)
          THEN /\ last' = [call EXCEPT !.err = "ValidationError"]
               /\ UNCHANGED <<dirs, files, conns, okInserts, created, pending, extra, gen>>
          ELSE /\ \/ FileExists(files, TablePath(db.name, name))
                  \/ Cardinality(DOMAIN files) < MaxFiles
               /\ files' = TableInitFiles(files, db.name, name, columns)
               /\ conns' = [conns EXCEPT ![c] =
                              [db EXCEPT !.tables = Append(db.tables, name),
                                         !.attrs = SetAttr(db.attrs, name,
                                                     TableInit(files, db.name, name, columns))]]
               /\ okInserts' = Counted(files', okInserts)
               /\ created' = Recorded(created, <<db.name, name>>, columns)
               /\ last' = call
               /\ UNCHANGED <<dirs, pending, extra, gen>>

\* db.<t>.insert(*args)
Insert(c, t, args) ==
    LET db == conns[c]
        table == db.attrs[t]
        call == [NoCall EXCEPT !.op = "insert", !.conn = c, !.db = db.name,
                               !.table = t, !.args = args]
        i == FirstMismatch(args, table.columns)
    IN /\ db.open
       /\ t \in DOMAIN db.attrs
       /\ IF table.columns.none
          THEN /\ last' = [call EXCEPT !.err = "TypeError"]
               /\ UNCHANGED <<dirs, files, conns, okInserts, created, pending, extra, gen>>
          ELSE IF ArityMismatch(args, table.columns)
          THEN /\ last' = [call EXCEPT !.err = "ValidationError", !.msg = "amount"]
               /\ UNCHANGED <<dirs, files, conns, okInserts, created, pending, extra, gen>>
          ELSE IF i # 0
          THEN /\ last' = [call EXCEPT !.err = "ValidationError", !.msg = "type",
                                       !.field = table.columns.cols[i].name]
               /\ UNCHANGED <<dirs, files, conns, okInserts, created, pending, extra, gen>>
          ELSE IF LoadErr(extra, table.path) # "ok"
          THEN /\ last' = [call EXCEPT !.err = LoadErr(extra, table.path)]
               /\ UNCHANGED <<dirs, files, conns, okInserts, created, pending, extra, gen>>
          ELSE /\ StoredRows(files) < MaxRows
               /\ files' = WriteRow(files, table.path, RowData(args, table.columns))
               /\ extra' = Leftover(files, extra, table.path, files'[table.path])
               /\ okInserts' = [okInserts EXCEPT ![table.path] = @ + 1]
               /\ last' = call
               /\ UNCHANGED <<dirs, conns, created, pending, gen>>

\* db.<t>.insert(*args) by the writer w, up to and including the json.load
\* of _write_row (line 70): the checks of insert, then the document loaded.
InsertRead(w, t, args) ==
    LET db == conns[w]
        table == db.attrs[t]
        call == [NoCall EXCEPT !.op = "insert", !.conn = w, !.db = db.name,
                               !.table = t, !.args = args]
        i == FirstMismatch(args, table.columns)
    IN /\ db.open
       /\ t \in DOMAIN db.attrs
       /\ pending[w].pc # "write"
       /\ IF table.columns.none
          THEN /\ last' = [call EXCEPT !.err = "TypeError"]
               /\ UNCHANGED <<dirs, files, conns, okInserts, created, pending, extra, gen>>
          ELSE IF ArityMismatch(args, table.columns)
          THEN /\ last' = [call EXCEPT !.err = "ValidationError", !.msg = "amount"]
               /\ UNCHANGED <<dirs, files, conns, okInserts, created, pending, extra, gen>>
          ELSE IF i # 0
          THEN /\ last' = [call EXCEPT !.err = "ValidationError", !.msg = "type",
                                       !.field = table.columns.cols[i].name]
               /\ UNCHANGED <<dirs, files, conns, okInserts, created, pending, extra, gen>>
          ELSE IF LoadErr(extra, table.path) # "ok"
          THEN /\ last' = [call EXCEPT !.err = LoadErr(extra, table.path)]
               /\ UNCHANGED <<dirs, files, conns, okInserts, created, pending, extra, gen>>
          ELSE /\ StoredRows(files) < MaxRows
               /\ pending' = [pending EXCEPT ![w] =
                                [pc |-> "write", path |-> table.path,
                                 data |-> files[table.path],
                                 row |-> RowData(args, table.columns)]]
               /\ UNCHANGED <<dirs, files, conns, last, okInserts, created, extra, gen>>

\* The rest of the insert of the writer w: lines 71 to 73 of _write_row, and
\* the return of insert.
InsertWrite(w) ==
    LET p == pending[w]
    IN /\ p.pc = "write"
       /\ files' = WriteBack(files, p.path, p.data, p.row)
       /\ extra' = Leftover(files, extra, p.path, files'[p.path])
       /\ okInserts' = [okInserts EXCEPT ![p.path] = @ + 1]
       /\ pending' = [pending EXCEPT ![w].pc = "done"]
       /\ last' = [NoCall EXCEPT !.op = "insert", !.conn = w, !.db = p.path[1],
                                 !.table = StripExt(p.path[2])]
       /\ UNCHANGED <<dirs, conns, created, gen>>

\* list(db.<t>.query(**kwargs)): the generator made and consumed to its end
\* in one expression, no other call of the caller in between.  The
\* generator kept in a variable and advanced between other calls is
\* QueryCall and GenNext.
Query(c, t, kwargs) ==
    LET db == conns[c]
        load == LoadErr(extra, db.attrs[t].path)
        got == IF load = "ok" THEN TableQuery(files, db.attrs[t], kwargs)
               ELSE [rows |-> <<>>, err |-> load]
    IN /\ db.open
       /\ t \in DOMAIN db.attrs
       /\ last' = [NoCall EXCEPT !.op = "query", !.conn = c, !.db = db.name, !.table = t,
                                 !.kwargs = kwargs, !.err = got.err, !.result = got.rows]
       /\ UNCHANGED <<dirs, files, conns, okInserts, created, pending, extra, gen>>

\* list(db.<t>.all()): the generator made and consumed to its end in one
\* expression; kept in a variable, it is AllCall and GenNext.
All(c, t) ==
    LET db == conns[c]
        load == LoadErr(extra, db.attrs[t].path)
    IN /\ db.open
       /\ t \in DOMAIN db.attrs
       /\ last' = [NoCall EXCEPT !.op = "all", !.conn = c, !.db = db.name, !.table = t,
                                 !.err = load,
                                 !.result = IF load = "ok" THEN TableAll(files, db.attrs[t])
                                            ELSE <<>>]
       /\ UNCHANGED <<dirs, files, conns, okInserts, created, pending, extra, gen>>

\* g = db.<t>.query(**kwargs): the generator object is made on the Table
\* object, and no line of the body of query runs.
QueryCall(c, t, kwargs) ==
    LET db == conns[c]
    IN /\ db.open
       /\ t \in DOMAIN db.attrs
       /\ gen' = [gen EXCEPT ![c] = [NoGen EXCEPT !.pc = "created", !.op = "query",
                                                  !.table = db.attrs[t],
                                                  !.kwargs = kwargs]]
       /\ UNCHANGED <<dirs, files, conns, last, okInserts, created, pending, extra>>

\* g = db.<t>.all(): the generator object is made, and no line of the body
\* of all runs.
AllCall(c, t) ==
    LET db == conns[c]
    IN /\ db.open
       /\ t \in DOMAIN db.attrs
       /\ gen' = [gen EXCEPT ![c] = [NoGen EXCEPT !.pc = "created", !.op = "all",
                                                  !.table = db.attrs[t]]]
       /\ UNCHANGED <<dirs, files, conns, last, okInserts, created, pending, extra>>

\* The generator g as its first next(g) starts it: open and json.load (the
\* only read of the file), after which what it yields, and the exception it
\* ends with, are decided by the rows loaded.
Started(fs, ex, g) ==
    LET load == LoadErr(ex, g.table.path)
        got == IF g.op = "all"
               THEN [rows |-> TableAll(fs, g.table), err |-> "ok"]
               ELSE TableQuery(fs, g.table, g.kwargs)
    IN IF load # "ok" THEN [g EXCEPT !.err = load]
       ELSE [g EXCEPT !.data = fs[g.table.path].rows, !.todo = got.rows,
                      !.err = got.err]

\* next(g) on the generator the caller variable c keeps: it runs to the next
\* yield and gives that row, or runs to its end (StopIteration) or to the
\* exception it raises, which ends the call: `last` then holds the rows the
\* generator gave.
GenNext(c) ==
    LET g == gen[c]
        run == IF g.pc = "created" THEN Started(files, extra, g) ELSE g
    IN /\ g.pc # "none"
       /\ IF run.todo # <<>>
          THEN /\ gen' = [gen EXCEPT ![c] = [run EXCEPT !.pc = "running",
                                                       !.todo = Tail(run.todo),
                                                       !.out = Append(run.out, Head(run.todo))]]
               /\ UNCHANGED last
          ELSE /\ gen' = [gen EXCEPT ![c] = NoGen]
               /\ last' = [NoCall EXCEPT !.op = g.op, !.conn = c,
                                         !.db = g.table.path[1],
                                         !.table = g.table.name, !.kwargs = g.kwargs,
                                         !.err = run.err, !.result = run.out]
       /\ UNCHANGED <<dirs, files, conns, okInserts, created, pending, extra>>

\* db.<t>.count()
Count(c, t) ==
    LET db == conns[c]
        load == LoadErr(extra, db.attrs[t].path)
    IN /\ db.open
       /\ t \in DOMAIN db.attrs
       /\ last' = [NoCall EXCEPT !.op = "count", !.conn = c, !.db = db.name, !.table = t,
                                 !.err = load,
                                 !.result = IF load = "ok" THEN TableCount(files, db.attrs[t])
                                            ELSE <<>>]
       /\ UNCHANGED <<dirs, files, conns, okInserts, created, pending, extra, gen>>

\* db.<t>.describe()
Describe(c, t) ==
    LET db == conns[c]
    IN /\ db.open
       /\ t \in DOMAIN db.attrs
       /\ last' = [NoCall EXCEPT !.op = "describe", !.conn = c, !.db = db.name, !.table = t,
                                 !.result = TableDescribe(db.attrs[t])]
       /\ UNCHANGED <<dirs, files, conns, okInserts, created, pending, extra, gen>>

\* db.show_tables()
ShowTables(c) ==
    LET db == conns[c]
    IN /\ db.open
       /\ last' = [NoCall EXCEPT !.op = "show_tables", !.conn = c, !.db = db.name,
                                 !.result = ShowTablesOf(db)]
       /\ UNCHANGED <<dirs, files, conns, okInserts, created, pending, extra, gen>>

\* One call, by a caller with the variables C, on the database names D and
\* the table names N.
Step(C, D, N) ==
    \/ \E c \in C, name \in D : CreateDatabase(c, name)
    \/ \E c \in C, name \in D : ConnectDatabase(c, name)
    \/ \E c \in C, name \in N, columns \in Schemas : CreateTable(c, name, columns)
    \/ \E c \in C, t \in N, args \in ArgTuples : Insert(c, t, args)
    \/ \E c \in C, t \in N, kwargs \in Kwargs : Query(c, t, kwargs)
    \/ \E c \in C, t \in N : All(c, t)
    \/ \E c \in C, t \in N : Count(c, t)
    \/ \E c \in C, t \in N : Describe(c, t)
    \/ \E c \in C : ShowTables(c)

\* Two caller variables, two databases, one table name: connections that
\* are older than a table, and databases side by side.
Next == Step(Conns, DbNames, {<<"t">>})

Spec == Init /\ [][Next]_vars

\* One caller variable, one database, several tables, one of them with a
\* name that contains '.json'.
NextCatalog == Step({"a"}, {"shop"}, TableNames)

SpecCatalog == Init /\ [][NextCatalog]_vars

\* One caller variable, two databases, two tables in each: tables side by
\* side in a directory, and directories side by side.
NextFrame == Step({"a"}, DbNames, {<<"t">>, <<"u">>})

SpecFrame == Init /\ [][NextFrame]_vars

\* A database used through one connection only: the calls of one caller
\* variable, connect_database not among them.
NextSingle ==
    \/ \E name \in DbNames : CreateDatabase("a", name)
    \/ \E name \in TableNames, columns \in Schemas : CreateTable("a", name, columns)
    \/ \E t \in TableNames, args \in ArgTuples : Insert("a", t, args)
    \/ \E t \in TableNames, kwargs \in Kwargs : Query("a", t, kwargs)
    \/ \E t \in TableNames : All("a", t)
    \/ \E t \in TableNames : Count("a", t)
    \/ \E t \in TableNames : Describe("a", t)
    \/ ShowTables("a")

SpecSingle == Init /\ [][NextSingle]_vars

\* Generators kept by the caller and advanced between other calls: two
\* caller variables on one database and one table, the generators made
\* through a, inserts and counts through both.
NextLazy ==
    \/ \E c \in Conns : CreateDatabase(c, "shop")
    \/ \E c \in Conns : ConnectDatabase(c, "shop")
    \/ \E c \in Conns, columns \in Schemas : CreateTable(c, <<"t">>, columns)
    \/ \E c \in Conns, args \in ArgTuples : Insert(c, <<"t">>, args)
    \/ \E c \in Conns : Count(c, <<"t">>)
    \/ \E kwargs \in Kwargs : QueryCall("a", <<"t">>, kwargs)
    \/ AllCall("a", <<"t">>)
    \/ GenNext("a")

SpecLazy == Init /\ [][NextLazy]_vars

\* Two writers on the table t of one database, each with its own connection:
\* the state after a = create_database('shop'), a.create_table('t', Users)
\* and b = connect_database('shop').
InitRace ==
    LET made == TableInitFiles(<<>>, "shop", <<"t">>, Users)
        db == DataBaseInit(made, <<>>, "shop", <<FileName(<<"t">>)>>).db
    IN /\ dirs = {"shop"}
       /\ files = made
       /\ conns = [c \in Conns |-> db]
       /\ last = [NoCall EXCEPT !.op = "connect_database", !.conn = "b", !.db = "shop"]
       /\ okInserts = Counted(made, <<>>)
       /\ created = Recorded(<<>>, <<"shop", <<"t">>>>, Users)
       /\ pending = [w \in Conns |-> Idle]
       /\ extra = <<>>
       /\ gen = [c \in Conns |-> NoGen]

\* The two writers insert side by side, _write_row in two steps, count and
\* connect again.
NextRace ==
    \/ \E c \in Conns : pending[c].pc # "write" /\ ConnectDatabase(c, "shop")
    \/ \E w \in Conns, args \in ArgTuples : InsertRead(w, <<"t">>, args)
    \/ \E w \in Conns : InsertWrite(w)
    \/ \E c \in Conns : pending[c].pc # "write" /\ Count(c, <<"t">>)

SpecRace == InitRace /\ [][NextRace]_vars

-----------------------------------------------------------------------------
(* Properties.                                                             *)

\* The Table object the last call was made on (for a call on a table).
LastTable == conns[last.conn].attrs[last.table]

\* The open connections' Table objects.
Handles == {conns[c].attrs[t] : <<c, t>> \in {x \in Conns \X TableNames :
                conns[x[1]].open /\ x[2] \in DOMAIN conns[x[1]].attrs}}

\* The sequence s is the beginning of the sequence t.
IsPrefix(s, t) == Len(s) <= Len(t) /\ SubSeq(t, 1, Len(s)) = s

\* The row satisfies row[key] == value for every item of kwargs.
MatchesAll(row, kwargs) ==
    \A i \in 1..Len(kwargs) :
        /\ kwargs[i].key \in DOMAIN row
        /\ PyEq(row[kwargs[i].key], kwargs[i].value)

\* The rows that satisfy every item of kwargs, in their order.
Matching(rows, kwargs) ==
    LET Test(row) == MatchesAll(row, kwargs)
    IN SelectSeq(rows, Test)

\* C1: count() on any Table object equals the number of inserts into its
\* table file that returned normally (0 for a table just created), and a
\* count() call returns that number.
C1_CountIsSuccessfulInserts ==
    /\ \A h \in Handles : TableCount(files, h) = okInserts[h.path]
    /\ last.op = "count" => last.result = okInserts[LastTable.path]

\* C1 witness: count() has returned 2 after two successful inserts.
C1_Witness ==
    /\ last.op = "count"
    /\ last.result = 2
    /\ okInserts[LastTable.path] = 2

\* C2: after an insert that returned normally, the last row all() yields has,
\* for each column, the inserted value itself: same type, same value.
C2_RoundTrip ==
    (last.op = "insert" /\ last.err = "ok") =>
        LET rows == TableAll(files, LastTable)
            cols == LastTable.columns.cols
        IN /\ Len(rows) >= 1
           /\ \A i \in 1..Len(cols) : rows[Len(rows)][cols[i].name] = last.args[i]

\* C3: an insert with a number of values other than the number of columns of
\* the Table object's schema raises ValidationError, and the files (so the
\* stored rows and count()) are as before.
C3_WrongArityRejected ==
    [][LET tbl == conns[last'.conn].attrs[last'.table]
       IN (/\ last'.op = "insert"
           /\ ~tbl.columns.none
           /\ Len(last'.args) # Len(tbl.columns.cols))
          => /\ last'.err = "ValidationError"
             /\ files' = files
             /\ TableCount(files', tbl) = TableCount(files, tbl)]_vars

\* C3 witness: an insert with too many values was rejected on a table that
\* holds a row.
C3_Witness ==
    /\ last.op = "insert"
    /\ last.err = "ValidationError"
    /\ last.msg = "amount"
    /\ Len(last.args) > Len(LastTable.columns.cols)
    /\ TableCount(files, LastTable) >= 1

\* C4: an insert with the right number of values, one of them not of its
\* column's type, raises ValidationError naming the first such column, and
\* the files are as before.
C4_TypeMismatchRejected ==
    [][LET tbl == conns[last'.conn].attrs[last'.table]
           cols == tbl.columns.cols
           wrong == {i \in 1..Len(cols) : cols[i].type # last'.args[i].t}
       IN (/\ last'.op = "insert"
           /\ ~tbl.columns.none
           /\ Len(last'.args) = Len(cols)
           /\ wrong # {})
          => /\ last'.err = "ValidationError"
             /\ \E i \in wrong : /\ \A j \in wrong : i <= j
                                 /\ last'.field = cols[i].name
             /\ files' = files]_vars

\* C4 witness: an insert whose first value is right and whose second is wrong
\* was rejected, naming the second column, on a table that holds a row.
C4_Witness ==
    /\ last.op = "insert"
    /\ last.err = "ValidationError"
    /\ last.msg = "type"
    /\ last.field = LastTable.columns.cols[2].name
    /\ TableCount(files, LastTable) >= 1

\* C5: a query with two or more keyword arguments yields exactly the stored
\* rows that satisfy all of them, each once, in stored order.
C5_QueryIsConjunction ==
    (last.op = "query" /\ Len(last.kwargs) >= 2) =>
        /\ last.err = "ok"
        /\ last.result = Matching(TableAll(files, LastTable), last.kwargs)

\* C6: a query with no keyword argument yields the stored rows, as all() does.
C6_EmptyQueryIsAll ==
    (last.op = "query" /\ last.kwargs = <<>>) =>
        /\ last.err = "ok"
        /\ last.result = TableAll(files, LastTable)

\* C7: a query with one keyword argument k=v, k a column of the Table
\* object's schema, yields exactly the stored rows with row[k] == v, in
\* stored order.
C7_SingleKeyQuery ==
    (/\ last.op = "query"
     /\ Len(last.kwargs) = 1
     /\ last.kwargs[1].key \in ColumnNames(LastTable.columns)) =>
        /\ last.err = "ok"
        /\ last.result = Matching(TableAll(files, LastTable), last.kwargs)

\* C8: create_database with the name of an existing directory raises
\* ValidationError, and the directories, the files and the caller's
\* connections are as before.
C8_CreateExistingDatabaseRejected ==
    [][(last'.op = "create_database" /\ last'.db \in dirs)
          => /\ last'.err = "ValidationError"
             /\ dirs' = dirs
             /\ files' = files
             /\ conns' = conns]_vars

\* C8 witness: create_database was rejected for a database that holds a
\* table with a row.
C8_Witness ==
    /\ last.op = "create_database"
    /\ last.err = "ValidationError"
    /\ \E p \in DOMAIN files : p[1] = last.db /\ Len(files[p].rows) >= 1

\* C9: create_table with a name the connection's catalog holds raises
\* ValidationError, and show_tables(), the Table objects of the connection
\* and the files are as before.
C9_DuplicateTableRejected ==
    [][(/\ last'.op = "create_table"
        /\ \E i \in 1..Len(conns[last'.conn].tables) :
               conns[last'.conn].tables[i] = last'.table)
          => /\ last'.err = "ValidationError"
             /\ ShowTablesOf(conns'[last'.conn]) = ShowTablesOf(conns[last'.conn])
             /\ conns' = conns
             /\ files' = files]_vars

\* C9 witness: create_table was rejected for a table that holds a row, the
\* schema passed being another than the persisted one.
C9_Witness ==
    /\ last.op = "create_table"
    /\ last.err = "ValidationError"
    /\ last.columns # files[TablePath(last.db, last.table)].columns
    /\ Len(files[TablePath(last.db, last.table)].rows) >= 1

\* C10: a new connection lists exactly the tables created so far in the
\* database, each with the schema it was created with and with as many rows
\* as inserts into it returned normally.
C10_ReconnectRediscovers ==
    (last.op = "connect_database" /\ last.err = "ok") =>
        LET db == conns[last.conn]
            listed == {db.tables[i] : i \in 1..Len(db.tables)}
        IN /\ listed = {p[2] : p \in {q \in DOMAIN created : q[1] = db.name}}
           /\ \A t \in listed :
                 /\ t \in DOMAIN db.attrs
                 /\ <<db.name, t>> \in DOMAIN created
                 /\ TableDescribe(db.attrs[t]) = created[<<db.name, t>>]
                 /\ TableCount(files, db.attrs[t]) = okInserts[db.attrs[t].path]

\* C11: a Table object opened on an existing file has the persisted schema,
\* whatever schema was passed: after a create_table that returned, describe()
\* is the 'columns' of the file, and an insert that returned was validated
\* against them.
C11_PersistedSchemaWins ==
    /\ (last.op = "create_table" /\ last.err = "ok") =>
           TableDescribe(LastTable) = files[LastTable.path].columns
    /\ (last.op = "insert" /\ last.err = "ok") =>
           LET cols == files[LastTable.path].columns.cols
           IN /\ Len(last.args) = Len(cols)
              /\ \A i \in 1..Len(cols) : cols[i].type = last.args[i].t

\* C12: no stale reads.  When a count(), an all() or a query() has ended,
\* what it gave reflects the rows in the table file now: count() their
\* number, all() the rows, query() with one keyword the rows that match.
C12_NoStaleReads ==
    LET stored == files[TablePath(last.db, last.table)].rows
    IN /\ (last.op = "count" /\ last.err = "ok") => last.result = Len(stored)
       /\ (last.op = "all" /\ last.err = "ok") => last.result = stored
       /\ (last.op = "query" /\ last.err = "ok" /\ Len(last.kwargs) = 1) =>
              last.result = Matching(stored, last.kwargs)

\* C12 as amended: reads reflect the file as it is when they read it.
\* count() returns the number of rows in the file when it is called.  A
\* generator of all() or query() loads the file when it is first advanced,
\* keeps the rows it loaded, and when it ends has given those rows (all),
\* the matching ones among them (query with one keyword), rows among them
\* (any query): rows written before it was first advanced, through whichever
\* Table object, are among them, rows written later are not.  An insert that
\* returned is seen by every Table object of every connection on that file.
C12_ReadsReflectFileWhenRead ==
    [][/\ \A c \in Conns :
              LET g == gen[c]
                  data == IF g.pc = "running" THEN g.data ELSE files[g.table.path].rows
              IN /\ (g.pc = "created" /\ gen'[c].pc = "running") =>
                        /\ gen'[c].data = files[g.table.path].rows
                        /\ gen'[c].out \o gen'[c].todo =
                              IF g.op = "all" THEN gen'[c].data
                              ELSE ScanRows(gen'[c].data, g.kwargs, 1).rows
                 /\ (g.pc = "running" /\ gen'[c].pc = "running") =>
                        /\ gen'[c].data = g.data
                        /\ gen'[c].out \o gen'[c].todo = g.out \o g.todo
                 /\ (g.pc # "none" /\ gen'[c].pc = "none" /\ last'.err = "ok") =>
                        /\ g.op = "all" => last'.result = data
                        /\ g.op = "query" =>
                              /\ \A i \in 1..Len(last'.result) :
                                    \E j \in 1..Len(data) : last'.result[i] = data[j]
                              /\ Len(g.kwargs) = 1 =>
                                    last'.result = Matching(data, g.kwargs)
       /\ (last'.op = "count" /\ last'.err = "ok") =>
              last'.result = Len(files'[TablePath(last'.db, last'.table)].rows)
       /\ (last'.op = "insert" /\ last'.err = "ok" /\ files' # files) =>
              LET tbl == conns[last'.conn].attrs[last'.table]
              IN \A h \in Handles :
                     h.path = tbl.path =>
                        /\ TableCount(files', h) = TableCount(files, h) + 1
                        /\ TableAll(files', h) =
                              Append(TableAll(files, h),
                                     JsonRow(RowData(last'.args, tbl.columns)))]_vars

\* C12 witness: a generator of all() has ended having given the one row the
\* file held when it was first advanced, the file now holding two.
C12_Witness ==
    /\ last.op = "all"
    /\ last.err = "ok"
    /\ Len(last.result) = 1
    /\ Len(files[TablePath(last.db, last.table)].rows) = 2
    /\ files[TablePath(last.db, last.table)].rows[1] = last.result[1]

\* C13: when two writers have both loaded the empty table file before either
\* wrote, and both inserts have returned, the file holds one row, not two,
\* although two inserts returned normally: count() then returns 1, or
\* raises JSONDecodeError when the second text written was the shorter one.
C13_LostUpdate ==
    (\A w \in Conns : pending[w].pc = "done" /\ pending[w].data.rows = <<>>) =>
        LET path == TablePath("shop", <<"t">>)
        IN /\ okInserts[path] >= 2
           /\ Len(files[path].rows) = 1
           /\ last.op = "count" =>
                  \/ last.err = "ok" /\ last.result = 1
                  \/ last.err = "JSONDecodeError" /\ ExtraOf(extra, path) > 0

\* C13 witness: both writers read the empty file, both inserts returned, and
\* count() has returned 1.
C13_Witness ==
    /\ \A w \in Conns : pending[w].pc = "done" /\ pending[w].data.rows = <<>>
    /\ okInserts[TablePath("shop", <<"t">>)] = 2
    /\ last.op = "count"
    /\ last.err = "ok"
    /\ last.result = 1

\* C14: every row stored in a table file has exactly the column names of the
\* file's persisted schema as its keys.
C14_RowKeysAreSchemaColumns ==
    \A p \in DOMAIN files :
        \A j \in 1..Len(files[p].rows) :
            /\ ~files[p].columns.none
            /\ DOMAIN files[p].rows[j] = ColumnNames(files[p].columns)

\* C15: show_tables() of a connection holds no table name twice.
C15_CatalogNamesUnique ==
    \A c \in Conns :
        conns[c].open =>
            LET listed == ShowTablesOf(conns[c])
            IN \A i, j \in 1..Len(listed) : listed[i] = listed[j] => i = j

\* C17: the schema of a table does not change: describe() on every Table
\* object, and the 'columns' of the table file, are the schema the table was
\* created with.
C17_SchemaImmutable ==
    /\ \A h \in Handles :
           LET tbl == <<h.path[1], h.name>>
           IN tbl \in DOMAIN created =>
                  /\ TableDescribe(h) = created[tbl]
                  /\ files[h.path].columns = created[tbl]
    /\ (last.op = "describe" /\ <<last.db, last.table>> \in DOMAIN created) =>
           last.result = created[<<last.db, last.table>>]

\* C16: create_database for a name with no directory creates the directory
\* and nothing else, and the connection it returns lists no table;
\* create_table for a name that is neither in the catalog nor the name of a
\* table file writes exactly {'columns': the schema passed, 'rows': []},
\* touches no other file, and the catalog then ends with that name.
C16_InitialStates ==
    [][LET db == conns[last'.conn]
           path == TablePath(last'.db, last'.table)
       IN /\ (last'.op = "create_database" /\ last'.db \notin dirs) =>
                 /\ last'.err = "ok"
                 /\ dirs' = dirs \cup {last'.db}
                 /\ files' = files
                 /\ DirEntries(files', last'.db) = {}
                 /\ conns'[last'.conn].open
                 /\ conns'[last'.conn].name = last'.db
                 /\ ShowTablesOf(conns'[last'.conn]) = <<>>
          /\ (/\ last'.op = "create_table"
              /\ \A i \in 1..Len(db.tables) : db.tables[i] # last'.table
              /\ path \notin DOMAIN files) =>
                 /\ last'.err = "ok"
                 /\ DOMAIN files' = DOMAIN files \cup {path}
                 /\ files'[path] = [columns |-> last'.columns, rows |-> <<>>]
                 /\ \A p \in DOMAIN files : files'[p] = files[p]
                 /\ ShowTablesOf(conns'[last'.conn]) = Append(ShowTablesOf(db), last'.table)
                 /\ TableDescribe(conns'[last'.conn].attrs[last'.table]) = last'.columns]_vars

\* C16 witness: create_table has returned for a second table of a database:
\* its file holds the schema passed and no row, and the name is listed last.
C16_Witness ==
    /\ last.op = "create_table"
    /\ last.err = "ok"
    /\ files[LastTable.path] = [columns |-> last.columns, rows |-> <<>>]
    /\ Cardinality(DirEntries(files, last.db)) = 2
    /\ Len(ShowTablesOf(conns[last.conn])) = 2
    /\ ShowTablesOf(conns[last.conn])[2] = last.table

\* C18: tables are append-only under sequential use.  Over every call, every
\* table file stays, and the rows it held are the beginning of the rows it
\* holds; an insert that returned added one row at the end of one file and
\* left the rows of the others as they were; any other call left the rows of
\* every file as they were.
C18_AppendOnly ==
    [][/\ \A p \in DOMAIN files :
              /\ p \in DOMAIN files'
              /\ IsPrefix(files[p].rows, files'[p].rows)
       /\ IF last'.op = "insert" /\ last'.err = "ok"
          THEN LET path == conns[last'.conn].attrs[last'.table].path
               IN /\ Len(files'[path].rows) = Len(files[path].rows) + 1
                  /\ \A p \in DOMAIN files : p # path => files'[p].rows = files[p].rows
                  /\ DOMAIN files' = DOMAIN files
          ELSE \A p \in DOMAIN files : files'[p].rows = files[p].rows]_vars

\* C18 witness: create_table has returned, passing another schema than the
\* persisted one, for a table file that existed and holds a row.
C18_Witness ==
    /\ last.op = "create_table"
    /\ last.err = "ok"
    /\ Len(files[LastTable.path].rows) >= 1
    /\ last.columns # files[LastTable.path].columns

\* C19: an insert, whether it returns or raises, leaves every other table
\* file as it was (rows and schema), in its database and in the others, and
\* leaves the directories, the set of table files, and the catalog and the
\* Table objects of every connection as they were.
C19_InsertFrame ==
    [][last'.op = "insert" =>
          LET path == conns[last'.conn].attrs[last'.table].path
          IN /\ dirs' = dirs
             /\ DOMAIN files' = DOMAIN files
             /\ \A p \in DOMAIN files : p # path => files'[p] = files[p]
             /\ \A c \in Conns : ShowTablesOf(conns'[c]) = ShowTablesOf(conns[c])
             /\ conns' = conns]_vars

\* C19 witness: an insert has returned on a table whose database holds
\* another table with a row, another database existing.
C19_Witness ==
    /\ last.op = "insert"
    /\ last.err = "ok"
    /\ \E p \in DOMAIN files :
           /\ p # LastTable.path
           /\ p[1] = last.db
           /\ Len(files[p].rows) >= 1
    /\ \E d \in dirs : d # last.db

\* C20: on a database used through one connection, the names show_tables()
\* lists are the names of the table files in the directory, and every name
\* listed has its Table object on the connection, on that table's file.
C20_CatalogMatchesDirectory ==
    \A c \in Conns :
        conns[c].open =>
            LET listed == {ShowTablesOf(conns[c])[i] : i \in 1..Len(ShowTablesOf(conns[c]))}
            IN /\ {FileName(n) : n \in listed} = DirEntries(files, conns[c].name)
               /\ \A n \in listed :
                     /\ n \in DOMAIN conns[c].attrs
                     /\ conns[c].attrs[n].path = TablePath(conns[c].name, n)

\* C20 witness: a create_table has been rejected on a connection that lists
\* two tables, one of them holding a row.
C20_Witness ==
    /\ last.op = "create_table"
    /\ last.err = "ValidationError"
    /\ Len(ShowTablesOf(conns[last.conn])) = 2
    /\ Cardinality(DirEntries(files, last.db)) = 2
    /\ \E p \in DOMAIN files : p[1] = last.db /\ Len(files[p].rows) >= 1

====
